---- MODULE Spec2Model ----
(***************************************************************************)
(* Model of registry_checker (src/main.rs): one run of main() reads the    *)
(* textual dependency tree, the manifest and the registry (inventory)      *)
(* file, finds the dependencies no registry version satisfies, reports     *)
(* them and, with --write, merges them into the registry file.             *)
(*                                                                         *)
(* Text is modelled as sequences of one-character strings, so that         *)
(* formatting and parsing are computed character by character.  The three  *)
(* box-drawing characters and the horizontal bar of a tree rendering are   *)
(* written "BOX_VR", "BOX_V", "BOX_UR" and "BOX_H".                         *)
(***************************************************************************)
EXTENDS Integers, Sequences, FiniteSets, TLC

VARIABLES
    tree_output,        \* stdout of `cargo tree`: a sequence of lines
    manifest,           \* the parsed TOML value of Cargo.toml
    registry_file,      \* the registry file on disk: a sequence of lines
    file_before,        \* the registry file as it was when the last run started
    write,              \* args.write of the last run
    result,             \* "none" before any run, then "ok" or "err"
    project_deps,       \* main's project_deps  (name -> Version)
    registry_versions,  \* main's registry_versions (name -> set of Version)
    missing_deps,       \* main's missing_deps (name -> Version)
    needs_approval,     \* main's needs_approval: sequence of (crate, reason)
    wrote,              \* TRUE iff the last run overwrote the registry file
    prev_write_ok       \* TRUE iff the run before the last had --write and ended ok

vars == <<tree_output, manifest, registry_file, file_before, write, result,
          project_deps, registry_versions, missing_deps,
          needs_approval, wrote, prev_write_ok>>

(***************************************************************************)
(* Bounds of the model.                                                    *)
(***************************************************************************)
MaxMajor == 2
MaxMinor == 1
MaxTreeDeps == 1
MaxFileLines == 2

(***************************************************************************)
(* Characters and strings.                                                 *)
(***************************************************************************)
\* The characters of the model in increasing byte order (String's Ord).
AsciiOrder ==
    <<" ", "(", ")", "*", "+", "-", ".", "/",
      "0", "1", "2", "3", "4", "5", "6", "7", "8", "9", ":",
      "<", "=", ">", "^",
      "a", "b", "c", "d", "e", "g", "h", "i", "l", "m", "n", "o", "p", "r",
      "s", "t", "u", "v", "x", "y", "~",
      "BOX_H", "BOX_V", "BOX_UR", "BOX_VR">>

OrdTable ==
    [c \in {AsciiOrder[i] : i \in 1..Len(AsciiOrder)} |->
        CHOOSE i \in 1..Len(AsciiOrder) : AsciiOrder[i] = c]

OrdOf(c) == OrdTable[c]

Digits == <<"0", "1", "2", "3", "4", "5", "6", "7", "8", "9">>

IsDigit(c) == \E i \in 1..10 : Digits[i] = c

DigitVal(c) == (CHOOSE i \in 1..10 : Digits[i] = c) - 1

IsAlpha(c) == OrdOf(c) >= OrdOf("a") /\ OrdOf(c) <= OrdOf("y")

\* A character of a semver identifier: [0-9A-Za-z-]
IsIdentChar(c) == IsDigit(c) \/ IsAlpha(c) \/ c = "-"

IsWhitespace(c) == c = " "

None == [some |-> FALSE]

Some(x) == [some |-> TRUE, val |-> x]

StartsWith(s, p) == Len(s) >= Len(p) /\ SubSeq(s, 1, Len(p)) = p

EndsWith(s, p) == Len(s) >= Len(p) /\ SubSeq(s, Len(s) - Len(p) + 1, Len(s)) = p

\* str::contains
Contains(s, p) ==
    \E i \in 1..(Len(s) - Len(p) + 1) : SubSeq(s, i, i + Len(p) - 1) = p

\* str::find of one character: the first index, 0 when absent
Find(s, c) ==
    IF \E i \in 1..Len(s) : s[i] = c
    THEN CHOOSE i \in 1..Len(s) : s[i] = c /\ \A j \in 1..(i - 1) : s[j] # c
    ELSE 0

\* str::rfind of one character: the last index, 0 when absent
RFind(s, c) ==
    IF \E i \in 1..Len(s) : s[i] = c
    THEN CHOOSE i \in 1..Len(s) : s[i] = c /\ \A j \in (i + 1)..Len(s) : s[j] # c
    ELSE 0

\* str::trim_start_matches with a set of characters
TrimStartMatches(s, cs) ==
    IF \A i \in 1..Len(s) : s[i] \in cs
    THEN <<>>
    ELSE LET k == CHOOSE i \in 1..Len(s) :
                      s[i] \notin cs /\ \A j \in 1..(i - 1) : s[j] \in cs
         IN SubSeq(s, k, Len(s))

TrimEnd(s) ==
    IF \A i \in 1..Len(s) : IsWhitespace(s[i])
    THEN <<>>
    ELSE LET k == CHOOSE i \in 1..Len(s) :
                      ~IsWhitespace(s[i])
                      /\ \A j \in (i + 1)..Len(s) : IsWhitespace(s[j])
         IN SubSeq(s, 1, k)

\* str::trim
Trim(s) == TrimEnd(TrimStartMatches(s, {" "}))

\* str::split_whitespace: the non-empty maximal runs without whitespace
RECURSIVE SplitWhitespace(_)
SplitWhitespace(s) ==
    LET t == TrimStartMatches(s, {" "})
        e == Find(t, " ")
    IN IF t = <<>> THEN <<>>
       ELSE IF e = 0 THEN <<t>>
       ELSE <<SubSeq(t, 1, e - 1)>> \o SplitWhitespace(SubSeq(t, e, Len(t)))

\* str::split on one character (empty pieces kept)
RECURSIVE SplitOn(_, _)
SplitOn(s, c) ==
    LET e == Find(s, c)
    IN IF e = 0 THEN <<s>>
       ELSE <<SubSeq(s, 1, e - 1)>> \o SplitOn(SubSeq(s, e + 1, Len(s)), c)

\* Display of an unsigned integer
RECURSIVE FormatNat(_)
FormatNat(n) ==
    IF n < 10 THEN <<Digits[n + 1]>>
    ELSE FormatNat(n \div 10) \o <<Digits[(n % 10) + 1]>>

RECURSIVE DigitsVal(_)
DigitsVal(s) ==
    IF s = <<>> THEN 0
    ELSE 10 * DigitsVal(SubSeq(s, 1, Len(s) - 1)) + DigitVal(s[Len(s)])

\* A semver numeric component: digits only, no leading zero
IsNumeric(s) ==
    /\ s # <<>>
    /\ \A i \in 1..Len(s) : IsDigit(s[i])
    /\ (Len(s) > 1 => s[1] # "0")

\* Ord for String: byte-wise lexicographic order
RECURSIVE StrLess(_, _)
StrLess(s, t) ==
    IF t = <<>> THEN FALSE
    ELSE IF s = <<>> THEN TRUE
    ELSE IF s[1] # t[1] THEN OrdOf(s[1]) < OrdOf(t[1])
    ELSE StrLess(Tail(s), Tail(t))

\* Vec<String>::sort of the elements of a set
RECURSIVE SortStrings(_)
SortStrings(S) ==
    IF S = {} THEN <<>>
    ELSE LET m == CHOOSE x \in S : \A y \in S : y = x \/ StrLess(x, y)
         IN <<m>> \o SortStrings(S \ {m})

Range(f) == {f[i] : i \in DOMAIN f}

(***************************************************************************)
(* semver::Version, as the program uses it (parse, Display, equality).     *)
(* A Version is [major, minor, patch, pre, build]; pre and build are the   *)
(* dot-separated identifier strings, empty when absent.                    *)
(***************************************************************************)
Version(ma, mi, pa, pre, build) ==
    [major |-> ma, minor |-> mi, patch |-> pa, pre |-> pre, build |-> build]

\* A pre-release string: non-empty identifiers of [0-9A-Za-z-], numeric
\* identifiers without a leading zero
IsPrerelease(s) ==
    LET ids == SplitOn(s, ".")
    IN \A i \in 1..Len(ids) :
          /\ ids[i] # <<>>
          /\ \A j \in 1..Len(ids[i]) : IsIdentChar(ids[i][j])
          /\ ((\A j \in 1..Len(ids[i]) : IsDigit(ids[i][j])) => IsNumeric(ids[i]))

\* A build-metadata string: non-empty identifiers of [0-9A-Za-z-]
IsBuildMetadata(s) ==
    LET ids == SplitOn(s, ".")
    IN \A i \in 1..Len(ids) :
          /\ ids[i] # <<>>
          /\ \A j \in 1..Len(ids[i]) : IsIdentChar(ids[i][j])

\* Version::parse: MAJOR.MINOR.PATCH[-PRE][+BUILD], None on any error
VersionParse(s) ==
    LET plus  == Find(s, "+")
        nob   == IF plus = 0 THEN s ELSE SubSeq(s, 1, plus - 1)
        build == IF plus = 0 THEN <<>> ELSE SubSeq(s, plus + 1, Len(s))
        dash  == Find(nob, "-")
        core  == IF dash = 0 THEN nob ELSE SubSeq(nob, 1, dash - 1)
        pre   == IF dash = 0 THEN <<>> ELSE SubSeq(nob, dash + 1, Len(nob))
        nums  == SplitOn(core, ".")
    IN IF /\ Len(nums) = 3
          /\ \A i \in 1..3 : IsNumeric(nums[i])
          /\ (dash # 0 => IsPrerelease(pre))
          /\ (plus # 0 => IsBuildMetadata(build))
       THEN Some(Version(DigitsVal(nums[1]), DigitsVal(nums[2]),
                         DigitsVal(nums[3]), pre, build))
       ELSE None

\* Display for Version
VersionToString(v) ==
    FormatNat(v.major) \o <<".">> \o FormatNat(v.minor) \o <<".">>
        \o FormatNat(v.patch)
        \o (IF v.pre = <<>> THEN <<>> ELSE <<"-">> \o v.pre)
        \o (IF v.build = <<>> THEN <<>> ELSE <<"+">> \o v.build)

\* Ord for one pair of identifiers: -1, 0 or 1
CompareIdent(a, b) ==
    LET an == \A j \in 1..Len(a) : IsDigit(a[j])
        bn == \A j \in 1..Len(b) : IsDigit(b[j])
    IN IF a = b THEN 0
       ELSE IF an /\ bn THEN (IF DigitsVal(a) < DigitsVal(b) THEN -1 ELSE 1)
       ELSE IF an THEN -1
       ELSE IF bn THEN 1
       ELSE IF StrLess(a, b) THEN -1 ELSE 1

RECURSIVE CompareIdents(_, _)
CompareIdents(as, bs) ==
    IF as = <<>> /\ bs = <<>> THEN 0
    ELSE IF as = <<>> THEN -1
    ELSE IF bs = <<>> THEN 1
    ELSE IF CompareIdent(as[1], bs[1]) # 0 THEN CompareIdent(as[1], bs[1])
    ELSE CompareIdents(Tail(as), Tail(bs))

\* Ord for Prerelease: the empty pre-release is the greatest
ComparePre(a, b) ==
    IF a = b THEN 0
    ELSE IF a = <<>> THEN 1
    ELSE IF b = <<>> THEN -1
    ELSE CompareIdents(SplitOn(a, "."), SplitOn(b, "."))

\* Ord for BuildMetadata: the empty build metadata is the least
CompareBuild(a, b) ==
    IF a = b THEN 0
    ELSE IF a = <<>> THEN -1
    ELSE IF b = <<>> THEN 1
    ELSE CompareIdents(SplitOn(a, "."), SplitOn(b, "."))

\* Ord for Version: v < w
VersionLess(v, w) ==
    IF v.major # w.major THEN v.major < w.major
    ELSE IF v.minor # w.minor THEN v.minor < w.minor
    ELSE IF v.patch # w.patch THEN v.patch < w.patch
    ELSE IF ComparePre(v.pre, w.pre) # 0 THEN ComparePre(v.pre, w.pre) < 0
    ELSE CompareBuild(v.build, w.build) < 0

(***************************************************************************)
(* semver::VersionReq.  A requirement is [comparators |-> set]; a          *)
(* comparator is [op, major, minor, patch, pre] with minor and patch -1    *)
(* when the requirement leaves them out.                                   *)
(***************************************************************************)
\* VersionReq::STAR
STAR == [comparators |-> {}]

ReqOps == << <<">", "=">>, <<"<", "=">>, <<">">>, <<"<">>, <<"=">>, <<"~">>, <<"^">> >>

\* The operator a comparator starts with (the longest that fits); a bare
\* version is a caret requirement
ReqOpOf(s) ==
    IF \E i \in 1..Len(ReqOps) : StartsWith(s, ReqOps[i])
    THEN ReqOps[CHOOSE i \in 1..Len(ReqOps) :
                    StartsWith(s, ReqOps[i])
                    /\ \A j \in 1..(i - 1) : ~StartsWith(s, ReqOps[j])]
    ELSE <<>>

\* VersionReq::parse of "*" or of one comparator OP MAJOR[.MINOR[.PATCH[-PRE][+BUILD]]]
\* (comma-separated lists and partial wildcards are not among the inputs)
VersionReqParse(str) ==
    LET s     == Trim(str)
        opstr == ReqOpOf(s)
        rest  == TrimStartMatches(SubSeq(s, Len(opstr) + 1, Len(s)), {" "})
        plus  == Find(rest, "+")
        nob   == IF plus = 0 THEN rest ELSE SubSeq(rest, 1, plus - 1)
        build == IF plus = 0 THEN <<>> ELSE SubSeq(rest, plus + 1, Len(rest))
        dash  == Find(nob, "-")
        core  == IF dash = 0 THEN nob ELSE SubSeq(nob, 1, dash - 1)
        pre   == IF dash = 0 THEN <<>> ELSE SubSeq(nob, dash + 1, Len(nob))
        nums  == SplitOn(core, ".")
    IN IF s = <<"*">> THEN Some(STAR)
       ELSE IF /\ Len(nums) \in 1..3
               /\ \A i \in 1..Len(nums) : IsNumeric(nums[i])
               /\ (dash # 0 => Len(nums) = 3 /\ IsPrerelease(pre))
               /\ (plus # 0 => Len(nums) = 3 /\ IsBuildMetadata(build))
       THEN Some([comparators |->
                {[op    |-> IF opstr = <<>> THEN <<"^">> ELSE opstr,
                  major |-> DigitsVal(nums[1]),
                  minor |-> IF Len(nums) >= 2 THEN DigitsVal(nums[2]) ELSE -1,
                  patch |-> IF Len(nums) >= 3 THEN DigitsVal(nums[3]) ELSE -1,
                  pre   |-> pre]}])
       ELSE None

\* semver's matches_exact
MatchesExact(c, v) ==
    /\ v.major = c.major
    /\ (c.minor # -1 => v.minor = c.minor)
    /\ (c.patch # -1 => v.patch = c.patch)
    /\ v.pre = c.pre

\* semver's matches_greater
MatchesGreater(c, v) ==
    IF v.major # c.major THEN v.major > c.major
    ELSE IF c.minor = -1 THEN FALSE
    ELSE IF v.minor # c.minor THEN v.minor > c.minor
    ELSE IF c.patch = -1 THEN FALSE
    ELSE IF v.patch # c.patch THEN v.patch > c.patch
    ELSE ComparePre(v.pre, c.pre) > 0

\* semver's matches_less
MatchesLess(c, v) ==
    IF v.major # c.major THEN v.major < c.major
    ELSE IF c.minor = -1 THEN FALSE
    ELSE IF v.minor # c.minor THEN v.minor < c.minor
    ELSE IF c.patch = -1 THEN FALSE
    ELSE IF v.patch # c.patch THEN v.patch < c.patch
    ELSE ComparePre(v.pre, c.pre) < 0

\* semver's matches_tilde
MatchesTilde(c, v) ==
    IF v.major # c.major THEN FALSE
    ELSE IF c.minor # -1 /\ v.minor # c.minor THEN FALSE
    ELSE IF c.patch # -1 /\ v.patch # c.patch THEN v.patch > c.patch
    ELSE ComparePre(v.pre, c.pre) >= 0

\* semver's matches_caret
MatchesCaret(c, v) ==
    IF v.major # c.major THEN FALSE
    ELSE IF c.minor = -1 THEN TRUE
    ELSE IF c.patch = -1
         THEN (IF c.major > 0 THEN v.minor >= c.minor ELSE v.minor = c.minor)
    ELSE IF c.major > 0 /\ v.minor # c.minor THEN v.minor > c.minor
    ELSE IF c.major > 0 /\ v.patch # c.patch THEN v.patch > c.patch
    ELSE IF c.major = 0 /\ c.minor > 0 /\ v.minor # c.minor THEN FALSE
    ELSE IF c.major = 0 /\ c.minor > 0 /\ v.patch # c.patch THEN v.patch > c.patch
    ELSE IF c.major = 0 /\ c.minor = 0 /\ (v.minor # c.minor \/ v.patch # c.patch)
         THEN FALSE
    ELSE ComparePre(v.pre, c.pre) >= 0

MatchesComparator(c, v) ==
    CASE c.op = <<"=">>      -> MatchesExact(c, v)
      [] c.op = <<">">>      -> MatchesGreater(c, v)
      [] c.op = <<">", "=">> -> MatchesExact(c, v) \/ MatchesGreater(c, v)
      [] c.op = <<"<">>      -> MatchesLess(c, v)
      [] c.op = <<"<", "=">> -> MatchesExact(c, v) \/ MatchesLess(c, v)
      [] c.op = <<"~">>      -> MatchesTilde(c, v)
      [] c.op = <<"^">>      -> MatchesCaret(c, v)

\* VersionReq::matches: every comparator matches, and a pre-release version
\* matches only a comparator that names a pre-release of the same
\* major.minor.patch
Matches(req, v) ==
    /\ \A c \in req.comparators : MatchesComparator(c, v)
    /\ \/ v.pre = <<>>
       \/ \E c \in req.comparators :
             /\ c.major = v.major
             /\ c.minor = v.minor
             /\ c.patch = v.patch
             /\ c.pre # <<>>

(***************************************************************************)
(* The program's own functions.                                            *)
(***************************************************************************)
DotCrate == <<".", "c", "r", "a", "t", "e">>

LParenRegistry == <<"(", "r", "e", "g", "i", "s", "t", "r", "y">>

CratesIoIndex ==
    <<"c", "r", "a", "t", "e", "s", ".", "i", "o", "-", "i", "n", "d", "e", "x">>

TreeChars == {"BOX_VR", "BOX_V", "BOX_UR", "BOX_H", " "}

\* format!("{}-{}.crate", name, version)
FormatCrateFile(name, version) ==
    name \o <<"-">> \o VersionToString(version) \o DotCrate

\* parse_crate_name_version: strip ".crate", split at the last dash, parse
\* what follows as a Version
parse_crate_name_version(crate_file) ==
    IF ~EndsWith(crate_file, DotCrate) THEN None
    ELSE LET without_ext == SubSeq(crate_file, 1, Len(crate_file) - Len(DotCrate))
             last_dash   == RFind(without_ext, "-")
             name        == SubSeq(without_ext, 1, last_dash - 1)
             version_str == SubSeq(without_ext, last_dash + 1, Len(without_ext))
             version     == VersionParse(version_str)
         IN IF last_dash = 0 THEN None
            ELSE IF ~version.some THEN None
            ELSE Some(<<name, version.val>>)

\* parse_cargo_tree_line
parse_cargo_tree_line(line) ==
    LET cleaned     == TrimStartMatches(Trim(line), TreeChars)
        parts       == SplitWhitespace(cleaned)
        version_str == TrimStartMatches(parts[2], {"v"})
        words       == SplitWhitespace(version_str)
        version     == VersionParse(words[1])
    IN IF Contains(cleaned, LParenRegistry) /\ ~Contains(cleaned, CratesIoIndex)
       THEN None
       ELSE IF Len(parts) < 2 THEN None
       ELSE IF words = <<>> THEN None
       ELSE IF ~version.some THEN None
       ELSE Some(<<parts[1], version.val>>)

\* HashMap::insert
Insert(m, k, v) == [x \in (DOMAIN m) \cup {k} |-> IF x = k THEN v ELSE m[x]]

\* HashMap::remove
Remove(m, k) == [x \in (DOMAIN m) \ {k} |-> m[x]]

EmptyMap == [x \in {} |-> 0]

\* main, lines 148-157: every line that parses is inserted, the last wins
RECURSIVE CollectTree(_, _)
CollectTree(lines, acc) ==
    IF lines = <<>> THEN acc
    ELSE LET p == parse_cargo_tree_line(lines[1])
         IN CollectTree(Tail(lines),
                        IF p.some THEN Insert(acc, p.val[1], p.val[2]) ELSE acc)

\* main, lines 159-164: the name on the first line is removed
RemoveRoot(deps, lines) ==
    LET first_line == IF lines = <<>> THEN <<>> ELSE lines[1]
        root       == parse_cargo_tree_line(first_line)
    IN IF root.some THEN Remove(deps, root.val[1]) ELSE deps

ProjectDeps(tree) == RemoveRoot(CollectTree(tree, EmptyMap), tree)

DepSections == <<"dependencies", "dev-dependencies", "build-dependencies">>

\* parse_cargo_toml_requirements, lines 47-63: one entry of one section
RequirementOf(value) ==
    LET version_str ==
            IF value.type = "String" THEN Some(value.s)
            ELSE IF value.type = "Table"
                 THEN (IF value.version.some /\ value.version.val.type = "String"
                       THEN Some(value.version.val.s) ELSE None)
            ELSE None
    IN IF version_str.some THEN VersionReqParse(version_str.val) ELSE None

\* parse_cargo_toml_requirements, lines 45-65: the sections in order, a later
\* insert replacing an earlier one of the same name
RECURSIVE CollectRequirements(_, _, _)
CollectRequirements(toml, i, acc) ==
    IF i > Len(DepSections) THEN acc
    ELSE LET deps == toml[DepSections[i]]
             here == {n \in DOMAIN deps : RequirementOf(deps[n]).some}
         IN CollectRequirements(toml, i + 1,
                [n \in (DOMAIN acc) \cup here |->
                    IF n \in here THEN RequirementOf(deps[n]).val ELSE acc[n]])

parse_cargo_toml_requirements(toml) == CollectRequirements(toml, 1, EmptyMap)

(***************************************************************************)
(* The inputs: dependency trees, manifests and registry files.             *)
(***************************************************************************)
NameA == <<"a">>

NameAB == <<"a", "-", "b">>

NameRoot == <<"p">>

NameSibling == <<"s">>

Plain(ma, mi, pa) == Version(ma, mi, pa, <<>>, <<>>)

\* The release versions of the inputs: 1.0.0 .. MaxMajor.0.0 and
\* 1.1.0 .. 1.MaxMinor.0
PlainVersions ==
    {Plain(ma, 0, 0) : ma \in 1..MaxMajor} \cup {Plain(1, mi, 0) : mi \in 1..MaxMinor}

\* "name vX.Y.Z": a line of `cargo tree --prefix none`
TreeLine(name, version) == name \o <<" ", "v">> \o VersionToString(version)

PathOf(name) == <<" ", "(", "/">> \o name \o <<")">>

\* The first line: the project itself, a path package
RootLine == TreeLine(NameRoot, Plain(0, 1, 0)) \o PathOf(NameRoot)

\* A path-only member of the workspace (a sibling crate, or the root of the
\* tree of a second workspace member)
SiblingLine == TreeLine(NameSibling, Plain(0, 1, 0)) \o PathOf(NameSibling)

\* A package of another registry
AltRegistryLine ==
    TreeLine(NameAB, Plain(2, 0, 0)) \o <<" ">> \o LParenRegistry
        \o <<"+", "h", "t", "t", "p", "s", ":", "/", "/", "r", "/", ")">>

\* A crates.io package with its source spelled out, drawn with tree
\* characters, its version carrying build metadata
CratesIoLine ==
    <<"BOX_UR", "BOX_H", "BOX_H", " ">>
        \o TreeLine(NameAB, Version(1, 0, 0, <<>>, <<"b">>))
        \o <<" ">> \o LParenRegistry
        \o <<"+", "h", "t", "t", "p", "s", ":", "/", "/", "g", "i", "t", "h",
             "u", "b", ".", "c", "o", "m", "/", "r", "u", "s", "t", "-", "l",
             "a", "n", "g", "/">>
        \o CratesIoIndex \o <<")">>

\* A pre-release version
PreReleaseLine == TreeLine(NameA, Version(1, 0, 0, <<"a">>, <<>>))

DepLines ==
    {TreeLine(NameA, v) : v \in PlainVersions}
    \cup {PreReleaseLine, SiblingLine, AltRegistryLine, CratesIoLine}

SeqsUpTo(S, n) == UNION {[1..k -> S] : k \in 0..n}

TreeOutputs == {<<RootLine>> \o t : t \in SeqsUpTo(DepLines, MaxTreeDeps)}

FileLines ==
    {FormatCrateFile(NameA, Plain(1, 0, 0)),
     <<" ">> \o FormatCrateFile(NameA, Plain(MaxMajor, 0, 0)) \o <<" ">>,
     FormatCrateFile(NameAB, Plain(1, 0, 0)),
     <<"a", ".", "c", "r", "a", "t", "e">>,
     <<>>}

RegistryFiles == SeqsUpTo(FileLines, MaxFileLines)

TomlString(s) == [type |-> "String", s |-> s]

TomlTable(version) == [type |-> "Table", version |-> version]

TomlInteger == [type |-> "Integer"]

NoDeps == [n \in {} |-> TomlInteger]

Toml(deps, dev, build) ==
    [s \in Range(DepSections) |->
        CASE s = "dependencies" -> deps
          [] s = "dev-dependencies" -> dev
          [] s = "build-dependencies" -> build]

One(name, value) == [n \in {name} |-> value]

Manifests ==
    {Toml(NoDeps, NoDeps, NoDeps),
     Toml(One(NameA, TomlString(<<"1", ".", "0", ".", "0">>)), NoDeps, NoDeps),
     Toml(One(NameA, TomlTable(Some(TomlString(<<"=", "1", ".", "1", ".", "0">>)))),
          NoDeps, NoDeps),
     Toml(One(NameA, TomlTable(None)), One(NameA, TomlString(<<"x">>)),
          One(NameAB, TomlInteger)),
     Toml(One(NameA, TomlString(<<"1">>)), NoDeps,
          One(NameA, TomlString(<<">", "=", "2", ".", "0">>)))}

(***************************************************************************)
(* The parsers and formatters tabulated over the text the inputs can put   *)
(* in front of them: each table entry is the function applied to that      *)
(* text, computed once.                                                    *)
(***************************************************************************)
ProjectDepsOf == [t \in TreeOutputs |-> ProjectDeps(t)]

RequirementsOf == [m \in Manifests |-> parse_cargo_toml_requirements(m)]

\* Every (name, version) a tree line of the inputs parses to
TreePackages ==
    {p.val : p \in {q \in {parse_cargo_tree_line(l) : l \in DepLines \cup {RootLine}} :
                      q.some}}

CrateFileOf == [p \in TreePackages |-> FormatCrateFile(p[1], p[2])]

TrimOf == [l \in FileLines \cup Range(CrateFileOf) |-> Trim(l)]

CrateOf == [f \in Range(TrimOf) |-> parse_crate_name_version(f)]

CaretOf ==
    [v \in {p[2] : p \in TreePackages} |->
        VersionReqParse(<<"^">> \o VersionToString(v))]

(***************************************************************************)
(* main, step by step.                                                     *)
(***************************************************************************)
\* main, lines 170-174: the trimmed non-empty lines, as a set
ExistingRegistry(file) == {TrimOf[file[i]] : i \in DOMAIN file} \ {<<>>}

\* main, lines 177-182: name -> the versions of the lines that parse (the
\* order inside each Vec follows the HashSet's iteration order and is only
\* displayed, so the versions are kept as a set)
RegistryVersions(existing) ==
    LET good  == {CrateOf[f].val : f \in {g \in existing : CrateOf[g].some}}
        names == {nv[1] : nv \in good}
    IN [n \in names |-> {nv[2] : nv \in {x \in good : x[1] = n}}]

\* main, lines 194-201: the declared requirement, else ^needed_version
VersionReqFor(reqs, dep_name, needed_version) ==
    IF dep_name \in DOMAIN reqs THEN reqs[dep_name]
    ELSE IF CaretOf[needed_version].some THEN CaretOf[needed_version].val
    ELSE STAR

\* A variant of HasCompatibleVersion: only the resolved version itself counts
HasExactVersion(versions, reqs, dep_name, needed_version) ==
    /\ dep_name \in DOMAIN versions
    /\ needed_version \in versions[dep_name]

\* main, lines 204-207
HasCompatibleVersion(versions, reqs, dep_name, needed_version) ==
    /\ dep_name \in DOMAIN versions
    /\ \E v \in versions[dep_name] :
          Matches(VersionReqFor(reqs, dep_name, needed_version), v)

\* main, lines 189-212
MissingDeps(deps, versions, reqs) ==
    LET missing == {n \in DOMAIN deps :
                       ~HasCompatibleVersion(versions, reqs, n, deps[n])}
    IN [n \in missing |-> deps[n]]

\* main, lines 239-264: the entry pushed for one missing dependency
ApprovalEntry(versions, reqs, dep_name, needed_version) ==
    [crate  |-> CrateFileOf[<<dep_name, needed_version>>],
     reason |-> IF dep_name \in DOMAIN versions
                THEN [text     |-> "requirement not satisfied by registry versions",
                      req      |-> VersionReqFor(reqs, dep_name, needed_version),
                      versions |-> versions[dep_name]]
                ELSE [text |-> "new dependency"]]

\* main, lines 220-265: one entry per missing dependency, sorted by name
NeedsApproval(missing, versions, reqs) ==
    LET missing_sorted == SortStrings(DOMAIN missing)
    IN [i \in 1..Len(missing_sorted) |->
           ApprovalEntry(versions, reqs, missing_sorted[i],
                         missing[missing_sorted[i]])]

\* main, lines 288-291
MissingCrateFiles(missing) ==
    {CrateFileOf[<<n, missing[n]>>] : n \in DOMAIN missing}

\* A variant of MergedFile: the lines that do not parse are left out
MergedFileParsedOnly(existing, missing) ==
    SortStrings({f \in existing : CrateOf[f].some} \cup MissingCrateFiles(missing))

\* A variant of MergedFile: the missing files are appended after the sort
MergedFileAppended(existing, missing) ==
    SortStrings(existing) \o SortStrings(MissingCrateFiles(missing))

\* main, lines 294-309: the sorted union, one entry per line
MergedFile(existing, missing) ==
    SortStrings(existing \cup MissingCrateFiles(missing))

\* A variant of ReachesWrite: the flag is not consulted
ReachesWriteAlways(w, missing) == DOMAIN missing # {}

\* main, lines 214-217 and 284: the registry file is rewritten only with
\* --write and only when something is missing
ReachesWrite(w, missing) == w /\ DOMAIN missing # {}

\* main, lines 284-314: the registry file after a run that does not fail
FileAfter(w, file, existing, missing) ==
    IF ReachesWrite(w, missing) THEN MergedFile(existing, missing) ELSE file

(***************************************************************************)
(* The state machine: every step is one run of main.                       *)
(***************************************************************************)
Init ==
    /\ tree_output \in TreeOutputs
    /\ manifest \in Manifests
    /\ registry_file \in RegistryFiles
    /\ file_before = registry_file
    /\ write = FALSE
    /\ result = "none"
    /\ project_deps = EmptyMap
    /\ registry_versions = EmptyMap
    /\ missing_deps = EmptyMap
    /\ needs_approval = <<>>
    /\ wrote = FALSE
    /\ prev_write_ok = FALSE

\* What the environment does to the run: nothing, or one of the failures main
\* propagates (lines 137-142, 168, 186, 303-304)
IoOutcomes == {"ok", "cargo_failed", "read_failed", "toml_failed", "create_failed"}

\* One run of main.  Each local of main is bound to its value once, in the
\* order main computes them.
Run(w, io) ==
    \E deps \in {ProjectDepsOf[tree_output]} :
    \E existing \in {ExistingRegistry(registry_file)} :
    \E versions \in {RegistryVersions(existing)} :
    \E reqs \in {RequirementsOf[manifest]} :
    \E missing \in {MissingDeps(deps, versions, reqs)} :
    \E early \in {io \in {"cargo_failed", "read_failed", "toml_failed"}} :
       /\ io = "create_failed" => ReachesWrite(w, missing)
       /\ write' = w
       /\ file_before' = registry_file
       /\ prev_write_ok' = (write /\ result = "ok")
       /\ result' = IF io = "ok" THEN "ok" ELSE "err"
       /\ project_deps' = IF early THEN EmptyMap ELSE deps
       /\ registry_versions' = IF early THEN EmptyMap ELSE versions
       /\ missing_deps' = IF early THEN EmptyMap ELSE missing
       /\ needs_approval' =
              IF early THEN <<>> ELSE NeedsApproval(missing, versions, reqs)
       /\ wrote' = (io = "ok" /\ ReachesWrite(w, missing))
       /\ registry_file' =
              IF io = "ok" THEN FileAfter(w, registry_file, existing, missing)
              ELSE registry_file
       /\ UNCHANGED <<tree_output, manifest>>

Next == \E w \in BOOLEAN, io \in IoOutcomes : Run(w, io)

Spec == Init /\ [][Next]_vars

(***************************************************************************)
(* Vocabulary of the properties.                                           *)
(***************************************************************************)
\* The non-blank lines of a registry file, trimmed
EntriesOf(file) == {TrimOf[file[i]] : i \in DOMAIN file} \ {<<>>}

\* The (name, version) pairs the lines of a registry file parse to
InventoryOf(file) ==
    {CrateOf[f].val : f \in {g \in EntriesOf(file) : CrateOf[g].some}}

\* The requirement that applies to a Closure package: the declared one, else
\* the caret requirement of the resolved version
ApplicableReq(name, resolved) ==
    IF name \in DOMAIN RequirementsOf[manifest]
    THEN RequirementsOf[manifest][name]
    ELSE CaretOf[resolved].val

\* Some inventory version of the name satisfies the applicable requirement
Satisfied(file, name, resolved) ==
    \E nv \in InventoryOf(file) :
        nv[1] = name /\ Matches(ApplicableReq(name, resolved), nv[2])

\* A line of the tree that names a path package: "name vX.Y.Z (/path)"
IsPathLine(line) == Contains(line, <<"(", "/">>)

\* The maximum of a non-empty set of versions
Latest(versions) ==
    CHOOSE v \in versions : \A w \in versions : w = v \/ VersionLess(w, v)

\* The severity ladder of the Gap Classifier for an unsatisfied package
Category(name, required) ==
    IF name \notin DOMAIN registry_versions THEN "NewDependency"
    ELSE LET latest == Latest(registry_versions[name])
         IN IF VersionLess(required, latest) THEN "Downgrade"
            ELSE IF required.major # latest.major THEN "MajorUpgrade"
            ELSE IF required.minor # latest.minor \/ required.patch # latest.patch
                 THEN "MinorPatchUpgrade"
            ELSE "Informational"

\* The category the report gives an entry: the program prints one of two
\* reasons and nothing else
ReportedCategory(entry) ==
    IF entry.reason.text = "new dependency" THEN "NewDependency"
    ELSE "NoCompatibleVersion"

\* The entry of the approval list for a missing dependency, if any
ApprovalEntriesFor(name) ==
    {needs_approval[i] : i \in {j \in DOMAIN needs_approval :
        needs_approval[j].crate = CrateFileOf[<<name, missing_deps[name]>>]}}

\* The non-blank lines of a registry file, trimmed, in the order of the file
EntryLines(file) ==
    SelectSeq([i \in DOMAIN file |-> TrimOf[file[i]]], LAMBDA l : l # <<>>)

\* The lines are in lexicographic order
InOrder(lines) ==
    \A i, j \in DOMAIN lines : i < j => ~StrLess(lines[j], lines[i])

JunkLine == <<"a", ".", "c", "r", "a", "t", "e">>

(***************************************************************************)
(* The properties.                                                         *)
(***************************************************************************)
\* C1: formatting a package as <name>-<version>.crate and parsing the file
\* name gives the package back; stated of every package a run formats.
C1_RoundTrip ==
    \A n \in DOMAIN missing_deps :
        CrateOf[CrateFileOf[<<n, missing_deps[n]>>]] = Some(<<n, missing_deps[n]>>)

C3_Idempotent ==
    (prev_write_ok /\ write /\ result = "ok") => registry_file = file_before

C3_Witness ==
    /\ prev_write_ok /\ write /\ result = "ok" /\ wrote
    /\ Len(registry_file) >= 2

\* C4: a Closure package is reported missing exactly when no parsed inventory
\* version of its name satisfies the applicable requirement; a satisfied
\* range requirement yields no gap although the resolved version is absent,
\* and a name without inventory versions always yields a gap.
C4_GapIff ==
    result = "ok" =>
        /\ DOMAIN missing_deps \subseteq DOMAIN project_deps
        /\ \A n \in DOMAIN project_deps :
              /\ n \in DOMAIN missing_deps
                    <=> ~Satisfied(file_before, n, project_deps[n])
              /\ n \in DOMAIN missing_deps => missing_deps[n] = project_deps[n]
              /\ (\A nv \in InventoryOf(file_before) : nv[1] # n)
                    => n \in DOMAIN missing_deps

C4_Witness ==
    /\ result = "ok"
    /\ NameA \in DOMAIN project_deps
    /\ project_deps[NameA] = Plain(1, 1, 0)
    /\ NameA \in DOMAIN RequirementsOf[manifest]
    /\ <<NameA, Plain(1, 0, 0)>> \in InventoryOf(file_before)
    /\ <<NameA, Plain(1, 1, 0)>> \notin InventoryOf(file_before)
    /\ NameA \notin DOMAIN missing_deps

\* C5: no path package of the tree (the project's own roots, path-only
\* members) is in the Closure.
C5_NoLocalInClosure ==
    result = "ok" =>
        \A i \in DOMAIN tree_output :
            IsPathLine(tree_output[i])
                => SplitWhitespace(tree_output[i])[1] \notin DOMAIN project_deps

\* C6: a missing dependency of category MinorPatchUpgrade is never in the
\* approval-required list.
C6_SafeNotListed ==
    \A n \in DOMAIN missing_deps :
        Category(n, missing_deps[n]) = "MinorPatchUpgrade"
            => ApprovalEntriesFor(n) = {}

\* C7: a run without --write leaves the registry file as it was, and ends
\* successfully when it found and reported gaps.
C7_NoWriteNoChange ==
    (result # "none" /\ ~write) =>
        /\ registry_file = file_before
        /\ ~wrote
        /\ (DOMAIN missing_deps # {} => result = "ok")

C7_Witness ==
    /\ result = "ok" /\ ~write
    /\ DOMAIN missing_deps # {}
    /\ Len(needs_approval) = Cardinality(DOMAIN missing_deps)
    /\ registry_file # <<>>

\* C8: a --write run that finds nothing missing leaves the registry file
\* holding the prior non-blank entries in lexicographic order, one per line.
C8_EmptyMergeSorts ==
    (result = "ok" /\ write /\ DOMAIN missing_deps = {}) =>
        /\ EntriesOf(registry_file) = EntriesOf(file_before)
        /\ InOrder(EntryLines(registry_file))

\* C9: a missing dependency whose name the inventory knows is classified by
\* the ladder: Downgrade below the latest inventory version, else
\* MajorUpgrade when the majors differ, else MinorPatchUpgrade.
C9_SeverityLadder ==
    \A n \in (DOMAIN missing_deps) \cap (DOMAIN registry_versions) :
        /\ ApprovalEntriesFor(n) # {}
        /\ \A e \in ApprovalEntriesFor(n) :
              ReportedCategory(e) = Category(n, missing_deps[n])

\* C10: after a --write run, a further run with the same tree and manifest
\* finds nothing missing.
C10_Converges ==
    (prev_write_ok /\ result = "ok") => DOMAIN missing_deps = {}

====
